---- MODULE Spec2Model ----
(***************************************************************************)
(* Model of the online-store backend: the category, product and review     *)
(* routers over the relational store.  A table is a sequence of rows whose *)
(* index is the row's primary key (ids are handed out 1, 2, 3, ...).       *)
(* Ratings and averages are kept in hundredths (4.00 is 400).              *)
(***************************************************************************)
EXTENDS Integers, Sequences, FiniteSets, TLC

VARIABLES cats, prods, revs, reqs, resp

vars == <<cats, prods, revs, reqs, resp>>

(* ------------------------------ bounds --------------------------------- *)
MaxCat == 2
MaxShopCat == 3
MaxShopProd == 1
MaxTreeCat == 3
MaxTreeProd == 2
MaxOwnCat == 1
MaxOwnProd == 1
MaxProd == 2
MaxRev == 3
MaxStepProd == 1
MaxStepRev == 2
MaxAllCat == 1
MaxAllProd == 1
MaxAllRev == 1

(* --------------------------- request values ---------------------------- *)
\* Python None / SQL NULL for an id or an aggregate
None == 0
\* a body field the client did not send (model_dump(exclude_unset=True))
Unset == 0 - 1

\* the requests that can be in flight at once
Requests == {1, 2}

Names == {"a", "b"}
Prices == {10, 20}
Sellers == {1, 2}
Buyer == 3
GradeInputs == {0, 1, 5, 6}

\* func.avg(grade) over no row: NULL (avg_rating is None)
NoAvg == [sum |-> 0, n |-> 0]

(* ------------------------------ the store ------------------------------ *)
CatIds == 1..Len(cats)
ProdIds == 1..Len(prods)
RevIds == 1..Len(revs)

\* select(CategoryModel).where(id == c, is_active) is not None
ActiveCat(c) == c \in CatIds /\ cats[c].is_active
ActiveProd(p) == p \in ProdIds /\ prods[p].is_active
ActiveRev(r) == r \in RevIds /\ revs[r].is_active

Response(op, status, id, body) ==
    [op |-> op, status |-> status, id |-> id, body |-> body]

\* a request slot holding no request
Idle == [pc |-> "idle", product_id |-> None, review_id |-> None,
         grade |-> None, avg_rating |-> NoAvg]

Init ==
    /\ cats = <<>>
    /\ prods = <<>>
    /\ revs = <<>>
    /\ reqs = [s \in Requests |-> Idle]
    /\ resp = Response("none", 0, None, {})

(* --------------------------- categories router ------------------------- *)
get_all_categories ==
    /\ resp' = Response("get_all_categories", 200, None,
                        {c \in CatIds : cats[c].is_active})
    /\ UNCHANGED <<cats, prods, revs, reqs>>

create_category(name, parent_id) ==
    IF parent_id # None /\ ~ActiveCat(parent_id)
    THEN /\ resp' = Response("create_category", 400, None, {})
         /\ UNCHANGED <<cats, prods, revs, reqs>>
    ELSE /\ cats' = Append(cats, [name |-> name, parent_id |-> parent_id,
                                  is_active |-> TRUE])
         /\ resp' = Response("create_category", 201, Len(cats) + 1, {})
         /\ UNCHANGED <<prods, revs, reqs>>

\* category.model_dump(exclude_unset=True) applied to the row
UpdatedCategory(row, name, parent_id) ==
    [row EXCEPT !.name = name,
                !.parent_id = IF parent_id = Unset THEN @ ELSE parent_id]

\* update_category without the "cannot be its own parent" check
update_category_NoSelfCheck(category_id, name, parent_id) ==
    IF ~ActiveCat(category_id)
    THEN /\ resp' = Response("update_category", 404, category_id, {})
         /\ UNCHANGED <<cats, prods, revs, reqs>>
    ELSE IF parent_id \notin {None, Unset} /\ parent_id \notin CatIds
    THEN /\ resp' = Response("update_category", 404, category_id, {})
         /\ UNCHANGED <<cats, prods, revs, reqs>>
    ELSE /\ cats' = [cats EXCEPT ![category_id] =
                        UpdatedCategory(@, name, parent_id)]
         /\ resp' = Response("update_category", 200, category_id, {})
         /\ UNCHANGED <<prods, revs, reqs>>

update_category(category_id, name, parent_id) ==
    IF ~ActiveCat(category_id)
    THEN /\ resp' = Response("update_category", 404, category_id, {})
         /\ UNCHANGED <<cats, prods, revs, reqs>>
    ELSE IF parent_id \notin {None, Unset} /\ parent_id \notin CatIds
    THEN /\ resp' = Response("update_category", 404, category_id, {})
         /\ UNCHANGED <<cats, prods, revs, reqs>>
    ELSE IF parent_id \notin {None, Unset} /\ parent_id = category_id
    THEN /\ resp' = Response("update_category", 400, category_id, {})
         /\ UNCHANGED <<cats, prods, revs, reqs>>
    ELSE /\ cats' = [cats EXCEPT ![category_id] =
                        UpdatedCategory(@, name, parent_id)]
         /\ resp' = Response("update_category", 200, category_id, {})
         /\ UNCHANGED <<prods, revs, reqs>>

\* delete_category cascading to the child categories and the products
delete_category_Cascade(category_id) ==
    IF ~ActiveCat(category_id)
    THEN /\ resp' = Response("delete_category", 404, category_id, {})
         /\ UNCHANGED <<cats, prods, revs, reqs>>
    ELSE /\ cats' = [c \in CatIds |->
                        IF c = category_id \/ cats[c].parent_id = category_id
                        THEN [cats[c] EXCEPT !.is_active = FALSE]
                        ELSE cats[c]]
         /\ prods' = [p \in ProdIds |->
                         IF prods[p].category_id = category_id
                         THEN [prods[p] EXCEPT !.is_active = FALSE]
                         ELSE prods[p]]
         /\ resp' = Response("delete_category", 200, category_id, {})
         /\ UNCHANGED <<revs, reqs>>

delete_category(category_id) ==
    IF ~ActiveCat(category_id)
    THEN /\ resp' = Response("delete_category", 404, category_id, {})
         /\ UNCHANGED <<cats, prods, revs, reqs>>
    ELSE /\ cats' = [cats EXCEPT ![category_id].is_active = FALSE]
         /\ resp' = Response("delete_category", 200, category_id, {})
         /\ UNCHANGED <<prods, revs, reqs>>

(* ---------------------------- products router -------------------------- *)
get_all_products ==
    /\ resp' = Response("get_all_products", 200, None,
                        {p \in ProdIds : prods[p].is_active})
    /\ UNCHANGED <<cats, prods, revs, reqs>>

\* create_product whose category lookup lacks the is_active filter
create_product_AnyCategory(current_user, price, category_id) ==
    IF category_id # None /\ category_id \notin CatIds
    THEN /\ resp' = Response("create_product", 404, None, {})
         /\ UNCHANGED <<cats, prods, revs, reqs>>
    ELSE IF category_id = None
    THEN /\ resp' = Response("create_product", 500, None, {})
         /\ UNCHANGED <<cats, prods, revs, reqs>>
    ELSE /\ prods' = Append(prods, [category_id |-> category_id,
                                    seller_id |-> current_user,
                                    is_active |-> TRUE, rating |-> 0,
                                    price |-> price])
         /\ resp' = Response("create_product", 201, Len(prods) + 1, {})
         /\ UNCHANGED <<cats, revs, reqs>>

create_product(current_user, price, category_id) ==
    IF category_id # None /\ ~ActiveCat(category_id)
    THEN /\ resp' = Response("create_product", 404, None, {})
         /\ UNCHANGED <<cats, prods, revs, reqs>>
    ELSE IF category_id = None
    \* category_id is nullable=False: the commit raises, nothing is caught
    THEN /\ resp' = Response("create_product", 500, None, {})
         /\ UNCHANGED <<cats, prods, revs, reqs>>
    ELSE /\ prods' = Append(prods, [category_id |-> category_id,
                                    seller_id |-> current_user,
                                    is_active |-> TRUE, rating |-> 0,
                                    price |-> price])
         /\ resp' = Response("create_product", 201, Len(prods) + 1, {})
         /\ UNCHANGED <<cats, revs, reqs>>

\* the child query without its is_active filter
ChildIds_AnyChild(category_id) ==
    {c \in CatIds : cats[c].parent_id = category_id}

\* select(CategoryModel.id).where(parent_id == category_id, is_active)
ChildIds(category_id) ==
    {c \in CatIds : cats[c].parent_id = category_id /\ cats[c].is_active}

\* "child_ids is None" for child_ids = (await db.scalars(..)).all(): all()
\* returns a list, also when no row matches
AllIsNone(child_ids) == FALSE

ProductsByCategory(category_id) ==
    LET child_ids == ChildIds(category_id)
    IN  IF AllIsNone(child_ids)
        THEN {p \in ProdIds : prods[p].category_id = category_id
                              /\ prods[p].is_active}
        ELSE LET category_ids == {category_id} \cup child_ids
             IN  {p \in ProdIds : prods[p].category_id \in category_ids}

get_products_by_category(category_id) ==
    IF ~ActiveCat(category_id)
    THEN /\ resp' = Response("get_products_by_category", 404, category_id, {})
         /\ UNCHANGED <<cats, prods, revs, reqs>>
    ELSE /\ resp' = Response("get_products_by_category", 200, category_id,
                             ProductsByCategory(category_id))
         /\ UNCHANGED <<cats, prods, revs, reqs>>

get_product(product_id) ==
    IF ~ActiveProd(product_id)
    THEN /\ resp' = Response("get_product", 404, product_id, {})
         /\ UNCHANGED <<cats, prods, revs, reqs>>
    ELSE /\ resp' = Response("get_product", 200, product_id, {product_id})
         /\ UNCHANGED <<cats, prods, revs, reqs>>

\* product_update.model_dump(exclude_unset=True) applied to the row
UpdatedProduct(row, price, category_id) ==
    [row EXCEPT !.price = price,
                !.category_id = IF category_id = Unset THEN @ ELSE category_id]

\* update_product without the seller_id check
update_product_NoOwnerCheck(current_user, product_id, price, category_id) ==
    IF product_id \notin ProdIds
    THEN /\ resp' = Response("update_product", 404, product_id, {})
         /\ UNCHANGED <<cats, prods, revs, reqs>>
    ELSE IF category_id \notin {None, Unset} /\ ~ActiveCat(category_id)
    THEN /\ resp' = Response("update_product", 404, product_id, {})
         /\ UNCHANGED <<cats, prods, revs, reqs>>
    ELSE IF category_id = None
    THEN /\ resp' = Response("update_product", 500, product_id, {})
         /\ UNCHANGED <<cats, prods, revs, reqs>>
    ELSE /\ prods' = [prods EXCEPT ![product_id] =
                         UpdatedProduct(@, price, category_id)]
         /\ resp' = Response("update_product", 200, product_id, {})
         /\ UNCHANGED <<cats, revs, reqs>>

update_product(current_user, product_id, price, category_id) ==
    IF product_id \notin ProdIds
    THEN /\ resp' = Response("update_product", 404, product_id, {})
         /\ UNCHANGED <<cats, prods, revs, reqs>>
    ELSE IF prods[product_id].seller_id # current_user
    THEN /\ resp' = Response("update_product", 403, product_id, {})
         /\ UNCHANGED <<cats, prods, revs, reqs>>
    ELSE IF category_id \notin {None, Unset} /\ ~ActiveCat(category_id)
    THEN /\ resp' = Response("update_product", 404, product_id, {})
         /\ UNCHANGED <<cats, prods, revs, reqs>>
    ELSE IF category_id = None
    \* category_id is nullable=False: the UPDATE raises, nothing is caught
    THEN /\ resp' = Response("update_product", 500, product_id, {})
         /\ UNCHANGED <<cats, prods, revs, reqs>>
    ELSE /\ prods' = [prods EXCEPT ![product_id] =
                         UpdatedProduct(@, price, category_id)]
         /\ resp' = Response("update_product", 200, product_id, {})
         /\ UNCHANGED <<cats, revs, reqs>>

\* delete_product removing the row (a DELETE in the place of the UPDATE)
delete_product_Remove(current_user, product_id) ==
    IF ~ActiveProd(product_id)
    THEN /\ resp' = Response("delete_product", 404, product_id, {})
         /\ UNCHANGED <<cats, prods, revs, reqs>>
    ELSE IF prods[product_id].seller_id # current_user
    THEN /\ resp' = Response("delete_product", 403, product_id, {})
         /\ UNCHANGED <<cats, prods, revs, reqs>>
    ELSE /\ prods' = SubSeq(prods, 1, product_id - 1)
                        \o SubSeq(prods, product_id + 1, Len(prods))
         /\ resp' = Response("delete_product", 200, product_id, {})
         /\ UNCHANGED <<cats, revs, reqs>>

delete_product(current_user, product_id) ==
    IF ~ActiveProd(product_id)
    THEN /\ resp' = Response("delete_product", 404, product_id, {})
         /\ UNCHANGED <<cats, prods, revs, reqs>>
    ELSE IF prods[product_id].seller_id # current_user
    THEN /\ resp' = Response("delete_product", 403, product_id, {})
         /\ UNCHANGED <<cats, prods, revs, reqs>>
    ELSE /\ prods' = [prods EXCEPT ![product_id].is_active = FALSE]
         /\ resp' = Response("delete_product", 200, product_id, {})
         /\ UNCHANGED <<cats, revs, reqs>>

(* ---------------------------- reviews router --------------------------- *)
RECURSIVE SumGrades(_, _)
SumGrades(rs, ids) ==
    IF ids = {} THEN 0
    ELSE LET r == CHOOSE x \in ids : TRUE
         IN  rs[r].grade + SumGrades(rs, ids \ {r})

\* func.sum in the place of func.avg
AvgGrade_Sum(rs, product_id) ==
    LET ids == {r \in 1..Len(rs) :
                   rs[r].is_active /\ rs[r].product_id = product_id}
    IN  IF ids = {} THEN NoAvg
        ELSE [sum |-> SumGrades(rs, ids), n |-> 1]

\* select(func.avg(grade)).where(is_active, product_id == p): the exact
\* quotient sum/n, NULL over no row
AvgGrade(rs, product_id) ==
    LET ids == {r \in 1..Len(rs) :
                   rs[r].is_active /\ rs[r].product_id = product_id}
    IN  IF ids = {} THEN NoAvg
        ELSE [sum |-> SumGrades(rs, ids), n |-> Cardinality(ids)]

\* rounding that drops the digits after the second decimal
Round2_Truncate(avg) ==
    IF avg.n = 0 THEN 0 ELSE (100 * avg.sum) \div avg.n

\* func.round(avg_rating, 2), in hundredths, halves rounded up
Round2(avg) ==
    IF avg.n = 0 THEN 0 ELSE (200 * avg.sum + avg.n) \div (2 * avg.n)

\* the constraint without its lower limit
check_grade_range_UpperOnly(grade) == grade <= 5

\* CheckConstraint('grade >= 1 AND grade <= 5')
check_grade_range(grade) == grade >= 1 /\ grade <= 5

\* update(ProductModel).where(id == p).values(rating=...)
SetRating(ps, product_id, rating) ==
    IF product_id \in 1..Len(ps)
    THEN [ps EXCEPT ![product_id].rating = rating]
    ELSE ps

\* update(ReviewModel).where(id == r).values(is_active=False)
Deactivated(rs, review_id) == [rs EXCEPT ![review_id].is_active = FALSE]

NewReview(current_buyer, product_id, grade) ==
    [user_id |-> current_buyer, product_id |-> product_id, grade |-> grade,
     is_active |-> TRUE]

get_reviews ==
    /\ resp' = Response("get_reviews", 200, None,
                        {r \in RevIds : revs[r].is_active})
    /\ UNCHANGED <<cats, prods, revs, reqs>>

get_reviews_by_product(product_id) ==
    IF ~ActiveProd(product_id)
    THEN /\ resp' = Response("get_reviews_by_product", 404, product_id, {})
         /\ UNCHANGED <<cats, prods, revs, reqs>>
    ELSE /\ resp' = Response("get_reviews_by_product", 200, product_id,
                             {r \in RevIds : revs[r].product_id = product_id
                                             /\ revs[r].is_active})
         /\ UNCHANGED <<cats, prods, revs, reqs>>

\* the whole handler, run with no other request in between
create_review(current_buyer, product_id, grade) ==
    IF ~ActiveProd(product_id)
    THEN /\ resp' = Response("create_review", 404, product_id, {})
         /\ UNCHANGED <<cats, prods, revs, reqs>>
    ELSE IF ~check_grade_range(grade)
    \* IntegrityError at the commit: rollback, HTTP 400
    THEN /\ resp' = Response("create_review", 400, product_id, {})
         /\ UNCHANGED <<cats, prods, revs, reqs>>
    ELSE LET added == Append(revs, NewReview(current_buyer, product_id, grade))
             avg_rating == AvgGrade(added, product_id)
         IN  /\ revs' = added
             /\ prods' = SetRating(prods, product_id, Round2(avg_rating))
             /\ resp' = Response("create_review", 201, product_id, {})
             /\ UNCHANGED <<cats, reqs>>

\* the whole handler, run with no other request in between
delete_review(review_id) ==
    IF ~ActiveRev(review_id)
    THEN /\ resp' = Response("delete_review", 404, review_id, {})
         /\ UNCHANGED <<cats, prods, revs, reqs>>
    ELSE LET left == Deactivated(revs, review_id)
             product_id == revs[review_id].product_id
             avg_rating == AvgGrade(left, product_id)
         IN  /\ revs' = left
             /\ prods' = SetRating(prods, product_id,
                                   IF avg_rating.n = 0 THEN 0
                                   ELSE Round2(avg_rating))
             /\ resp' = Response("delete_review", 200, review_id, {})
             /\ UNCHANGED <<cats, reqs>>

(* ------------- the review handlers, one store round trip a step ------- *)
\* create_review: the product lookup
cr_select(s, product_id, grade) ==
    /\ reqs[s].pc = "idle"
    /\ IF ~ActiveProd(product_id)
       THEN /\ resp' = Response("create_review", 404, product_id, {})
            /\ UNCHANGED <<cats, prods, revs, reqs>>
       ELSE /\ reqs' = [reqs EXCEPT ![s] = [Idle EXCEPT !.pc = "cr_commit",
                                                        !.product_id = product_id,
                                                        !.grade = grade]]
            /\ UNCHANGED <<cats, prods, revs, resp>>

\* create_review: db.add(db_review); db.commit()
cr_commit(s) ==
    /\ reqs[s].pc = "cr_commit"
    /\ IF ~check_grade_range(reqs[s].grade)
       THEN /\ resp' = Response("create_review", 400, reqs[s].product_id, {})
            /\ reqs' = [reqs EXCEPT ![s] = Idle]
            /\ UNCHANGED <<cats, prods, revs>>
       ELSE /\ revs' = Append(revs, NewReview(Buyer, reqs[s].product_id,
                                              reqs[s].grade))
            /\ reqs' = [reqs EXCEPT ![s].pc = "cr_avg",
                                    ![s].review_id = Len(revs) + 1]
            /\ UNCHANGED <<cats, prods, resp>>

\* create_review: avg_rating = select(func.avg(..))
cr_avg(s) ==
    /\ reqs[s].pc = "cr_avg"
    /\ reqs' = [reqs EXCEPT ![s].pc = "cr_update",
                            ![s].avg_rating = AvgGrade(revs, reqs[s].product_id)]
    /\ UNCHANGED <<cats, prods, revs, resp>>

\* the rating kept as a running mean of the old rating and the new grade
cr_update_Incremental(s) ==
    /\ reqs[s].pc = "cr_update"
    /\ reqs' = [reqs EXCEPT ![s] = Idle]
    /\ prods' = SetRating(prods, reqs[s].product_id,
                          (prods[reqs[s].product_id].rating
                             + 100 * reqs[s].grade) \div 2)
    /\ resp' = Response("create_review", 201, reqs[s].product_id, {})
    /\ UNCHANGED <<cats, revs>>

\* create_review: update(ProductModel).values(rating=round(avg_rating, 2));
\* commit.  round(NULL, 2) is NULL and rating is nullable=False: the UPDATE
\* raises and nothing catches it
cr_update(s) ==
    /\ reqs[s].pc = "cr_update"
    /\ reqs' = [reqs EXCEPT ![s] = Idle]
    /\ IF reqs[s].avg_rating.n = 0
       THEN /\ resp' = Response("create_review", 500, reqs[s].product_id, {})
            /\ UNCHANGED <<cats, prods, revs>>
       ELSE /\ prods' = SetRating(prods, reqs[s].product_id,
                                  Round2(reqs[s].avg_rating))
            /\ resp' = Response("create_review", 201, reqs[s].product_id, {})
            /\ UNCHANGED <<cats, revs>>

\* delete_review: the review lookup
dr_select(s, review_id) ==
    /\ reqs[s].pc = "idle"
    /\ IF ~ActiveRev(review_id)
       THEN /\ resp' = Response("delete_review", 404, review_id, {})
            /\ UNCHANGED <<cats, prods, revs, reqs>>
       ELSE /\ reqs' = [reqs EXCEPT ![s] =
                            [Idle EXCEPT !.pc = "dr_commit",
                                         !.review_id = review_id,
                                         !.product_id = revs[review_id].product_id]]
            /\ UNCHANGED <<cats, prods, revs, resp>>

\* delete_review: update(ReviewModel).values(is_active=False); commit
dr_commit(s) ==
    /\ reqs[s].pc = "dr_commit"
    /\ revs' = Deactivated(revs, reqs[s].review_id)
    /\ reqs' = [reqs EXCEPT ![s].pc = "dr_avg"]
    /\ UNCHANGED <<cats, prods, resp>>

\* delete_review: avg_rating = select(func.avg(..))
dr_avg(s) ==
    /\ reqs[s].pc = "dr_avg"
    /\ reqs' = [reqs EXCEPT ![s].pc = "dr_update",
                            ![s].avg_rating = AvgGrade(revs, reqs[s].product_id)]
    /\ UNCHANGED <<cats, prods, revs, resp>>

\* delete_review: if avg_rating is None: avg_rating = 0; update rating; commit
dr_update(s) ==
    /\ reqs[s].pc = "dr_update"
    /\ prods' = SetRating(prods, reqs[s].product_id,
                          IF reqs[s].avg_rating.n = 0 THEN 0
                          ELSE Round2(reqs[s].avg_rating))
    /\ reqs' = [reqs EXCEPT ![s] = Idle]
    /\ resp' = Response("delete_review", 200, reqs[s].review_id, {})
    /\ UNCHANGED <<cats, revs>>

(* ----------------------- category-only requests ------------------------ *)
NextCat ==
    \/ get_all_categories
    \/ \E name \in Names, parent_id \in 0..(Len(cats) + 1) :
          Len(cats) < MaxCat /\ create_category(name, parent_id)
    \/ \E category_id \in 1..(Len(cats) + 1), name \in Names,
          parent_id \in (0 - 1)..(Len(cats) + 1) :
          update_category(category_id, name, parent_id)
    \/ \E category_id \in 1..(Len(cats) + 1) : delete_category(category_id)

SpecCat == Init /\ [][NextCat]_vars

(* -------------------- category and product requests ------------------- *)
NextShop ==
    \/ \E parent_id \in 0..(Len(cats) + 1) :
          Len(cats) < MaxShopCat /\ create_category("a", parent_id)
    \/ \E category_id \in 1..(Len(cats) + 1) : delete_category(category_id)
    \/ get_all_products
    \/ \E category_id \in 0..(Len(cats) + 1) :
          Len(prods) < MaxShopProd /\ create_product(1, 10, category_id)
    \/ \E category_id \in 1..(Len(cats) + 1) :
          get_products_by_category(category_id)
    \/ \E product_id \in 1..(Len(prods) + 1) : get_product(product_id)
    \/ \E u \in Sellers, product_id \in 1..(Len(prods) + 1) :
          delete_product(u, product_id)

SpecShop == Init /\ [][NextShop]_vars

(* ------------- the category tree and the products listed under it ------ *)
NextTree ==
    \/ \E parent_id \in 0..(Len(cats) + 1) :
          Len(cats) < MaxTreeCat /\ create_category("a", parent_id)
    \/ \E category_id \in 1..(Len(cats) + 1) : delete_category(category_id)
    \/ \E category_id \in 0..(Len(cats) + 1) :
          Len(prods) < MaxTreeProd /\ create_product(1, 10, category_id)
    \/ \E category_id \in 1..(Len(cats) + 1) :
          get_products_by_category(category_id)

SpecTree == Init /\ [][NextTree]_vars

(* ------------------------- sellers and their products ------------------ *)
NextOwn ==
    \/ \E parent_id \in 0..(Len(cats) + 1) :
          Len(cats) < MaxOwnCat /\ create_category("a", parent_id)
    \/ \E category_id \in 1..(Len(cats) + 1) : delete_category(category_id)
    \/ \E u \in Sellers, price \in Prices, category_id \in 0..(Len(cats) + 1) :
          Len(prods) < MaxOwnProd /\ create_product(u, price, category_id)
    \/ \E u \in Sellers, product_id \in 1..(Len(prods) + 1), price \in Prices,
          category_id \in (0 - 1)..(Len(cats) + 1) :
          update_product(u, product_id, price, category_id)
    \/ \E u \in Sellers, product_id \in 1..(Len(prods) + 1) :
          delete_product(u, product_id)

SpecOwn == Init /\ [][NextOwn]_vars

(* --------------- review requests, one after the other ------------------ *)
NextSeq ==
    \/ Len(cats) < 1 /\ create_category("a", None)
    \/ \E category_id \in 1..(Len(cats) + 1) :
          Len(prods) < MaxProd /\ create_product(1, 10, category_id)
    \/ get_reviews
    \/ \E product_id \in 1..(Len(prods) + 1) :
          get_reviews_by_product(product_id)
    \/ \E product_id \in 1..(Len(prods) + 1), grade \in GradeInputs :
          Len(revs) < MaxRev /\ create_review(Buyer, product_id, grade)
    \/ \E review_id \in 1..(Len(revs) + 1) : delete_review(review_id)

Spec == Init /\ [][NextSeq]_vars

(* ------------- every writing handler, one after the other ------------- *)
\* a request that would add a row is sent while the table has room; one
\* that the handler rejects is sent at any time
RoomForCategory(parent_id) ==
    Len(cats) < MaxAllCat \/ (parent_id # None /\ ~ActiveCat(parent_id))

RoomForProduct(category_id) ==
    Len(prods) < MaxAllProd \/ ~ActiveCat(category_id)

RoomForReview(product_id, grade) ==
    Len(revs) < MaxAllRev \/ ~ActiveProd(product_id)
        \/ ~check_grade_range(grade)

NextAll ==
    \/ \E parent_id \in 0..(Len(cats) + 1) :
          RoomForCategory(parent_id) /\ create_category("a", parent_id)
    \/ \E category_id \in 1..(Len(cats) + 1),
          parent_id \in (0 - 1)..(Len(cats) + 1) :
          update_category(category_id, "a", parent_id)
    \/ \E category_id \in 1..(Len(cats) + 1) : delete_category(category_id)
    \/ \E category_id \in 0..(Len(cats) + 1) :
          RoomForProduct(category_id) /\ create_product(1, 10, category_id)
    \/ \E product_id \in 1..(Len(prods) + 1),
          category_id \in (0 - 1)..(Len(cats) + 1) :
          update_product(1, product_id, 10, category_id)
    \/ \E product_id \in 1..(Len(prods) + 1) : delete_product(1, product_id)
    \/ \E product_id \in 1..(Len(prods) + 1), grade \in {5, 6} :
          RoomForReview(product_id, grade)
             /\ create_review(Buyer, product_id, grade)
    \/ \E review_id \in 1..(Len(revs) + 1) : delete_review(review_id)

SpecAll == Init /\ [][NextAll]_vars

(* ------- review requests at commit granularity, one at a time ---------- *)
AllIdle == \A s \in Requests : reqs[s].pc = "idle"

\* the reviews that exist or are about to be inserted
Pending == Len(revs) + Cardinality({s \in Requests : reqs[s].pc = "cr_commit"})

NextSteps ==
    \/ Len(cats) < 1 /\ create_category("a", None)
    \/ \E category_id \in 1..(Len(cats) + 1) :
          Len(prods) < MaxStepProd /\ create_product(1, 10, category_id)
    \/ \E product_id \in 1..(Len(prods) + 1) :
          AllIdle /\ delete_product(1, product_id)
    \/ \E product_id \in 1..(Len(prods) + 1), grade \in GradeInputs :
          AllIdle /\ Pending < MaxStepRev /\ cr_select(1, product_id, grade)
    \/ cr_commit(1)
    \/ cr_avg(1)
    \/ cr_update(1)
    \/ \E review_id \in 1..(Len(revs) + 1) : AllIdle /\ dr_select(1, review_id)
    \/ dr_commit(1)
    \/ dr_avg(1)
    \/ dr_update(1)

SpecSteps == Init /\ [][NextSteps]_vars

(* --------------- two review requests, steps interleaved ---------------- *)
NextRace ==
    \/ Len(cats) < 1 /\ create_category("a", None)
    \/ \E category_id \in 1..(Len(cats) + 1) :
          Len(prods) < MaxStepProd /\ create_product(1, 10, category_id)
    \/ \E s \in Requests, product_id \in 1..(Len(prods) + 1),
          grade \in GradeInputs :
          Pending < MaxStepRev /\ cr_select(s, product_id, grade)
    \/ \E s \in Requests : cr_commit(s)
    \/ \E s \in Requests : cr_avg(s)
    \/ \E s \in Requests : cr_update(s)
    \/ \E s \in Requests, review_id \in 1..(Len(revs) + 1) :
          dr_select(s, review_id)
    \/ \E s \in Requests : dr_commit(s)
    \/ \E s \in Requests : dr_avg(s)
    \/ \E s \in Requests : dr_update(s)

SpecRace == Init /\ [][NextRace]_vars

(* ------------------------------- claims -------------------------------- *)
ActiveReviewsOf(p) == {r \in RevIds : revs[r].is_active /\ revs[r].product_id = p}

\* rating (in hundredths) is the quotient sum/n rounded to two decimals:
\* rating - 0.5 <= 100 * sum / n < rating + 0.5
IsRoundedAverage(rating, sum, n) ==
    /\ 2 * rating * n - n <= 200 * sum
    /\ 200 * sum < 2 * rating * n + n

RatingMatchesReviews(p) ==
    IF ActiveReviewsOf(p) = {} THEN prods[p].rating = 0
    ELSE IsRoundedAverage(prods[p].rating, SumGrades(revs, ActiveReviewsOf(p)),
                          Cardinality(ActiveReviewsOf(p)))

\* C1: when review requests run one after the other, every product's rating
\* is the average grade of its active reviews rounded to two decimals, and
\* is 0 when it has no active review.
C1_RatingIsRoundedAverage == \A p \in ProdIds : RatingMatchesReviews(p)

C1_Witness ==
    /\ resp.op = "delete_review"
    /\ resp.status = 200
    /\ \E p \in ProdIds :
          /\ ActiveReviewsOf(p) = {}
          /\ \E r \in RevIds : revs[r].product_id = p
          /\ prods[p].rating = 0
    /\ \E q \in ProdIds :
          /\ Cardinality(ActiveReviewsOf(q)) = 2
          /\ prods[q].rating = 300

\* C5: create_review on an active product with a grade outside 1..5 answers
\* 400, stores no review row and changes no product (so no rating).
C5_BadGradeRejected ==
    [][\A p \in ProdIds, g \in GradeInputs :
          (prods[p].is_active /\ (g < 1 \/ g > 5)
             /\ create_review(Buyer, p, g))
          => (resp'.status = 400 /\ revs' = revs /\ prods' = prods)]_vars

C5_Witness ==
    /\ resp.op = "create_review"
    /\ resp.status = 400
    /\ prods[resp.id].is_active
    /\ prods[resp.id].rating = 500

NoSelfParent == \A c \in CatIds : cats[c].parent_id # c

\* C2: no category ever has parent_id equal to its own id: create_category
\* gives the new row a parent that already existed, and update_category of an
\* active category with parent_id equal to its own id answers 400 and changes
\* no category (on any category it changes nothing).
C2_NoSelfParent ==
    /\ NoSelfParent
    /\ [][/\ NoSelfParent'
          /\ \A c \in CatIds, name \in Names :
                update_category(c, name, c) =>
                    /\ cats' = cats
                    /\ cats[c].is_active => resp'.status = 400]_vars

C2_Witness ==
    /\ resp.op = "update_category"
    /\ resp.status = 400
    /\ ActiveCat(resp.id)
    /\ cats[resp.id].parent_id # resp.id

\* C3: a successful delete_category (one on an active category, which always
\* succeeds) clears that category's is_active and changes nothing else: not
\* its parent_id or name, no other category, no product, no review.
C3_DeleteCategoryShallow ==
    [][/\ \A c \in CatIds :
             (cats[c].is_active /\ delete_category(c)) => resp'.status = 200
       /\ (resp'.op = "delete_category" /\ resp'.status = 200) =>
             /\ Len(cats') = Len(cats)
             /\ cats[resp'.id].is_active /\ ~cats'[resp'.id].is_active
             /\ cats'[resp'.id].parent_id = cats[resp'.id].parent_id
             /\ cats'[resp'.id].name = cats[resp'.id].name
             /\ \A d \in CatIds \ {resp'.id} : cats'[d] = cats[d]
             /\ prods' = prods
             /\ revs' = revs]_vars

C3_Witness ==
    /\ resp.op = "delete_category"
    /\ resp.status = 200
    /\ ~cats[resp.id].is_active
    /\ \E d \in CatIds : cats[d].parent_id = resp.id /\ cats[d].is_active
    /\ \E p \in ProdIds : prods[p].category_id = resp.id /\ prods[p].is_active

\* C4 as claimed: a seller who does not own an existing product gets 403 from
\* update_product and from delete_product, and the products are unchanged.
C4_NonOwnerForbidden ==
    [][\A u \in Sellers, p \in ProdIds :
          prods[p].seller_id # u =>
             /\ \A price \in Prices, c \in (0 - 1)..(Len(cats) + 1) :
                   update_product(u, p, price, c) =>
                       (resp'.status = 403 /\ prods' = prods)
             /\ delete_product(u, p) =>
                       (resp'.status = 403 /\ prods' = prods)]_vars

\* C4 as amended: for a seller who does not own an existing product,
\* update_product answers 403; delete_product answers 403 when the product
\* is active and 404 when it is inactive; both leave every product unchanged,
\* so a step of either that changes a product is a step of its owner.
C4_NonOwnerRejected ==
    [][\A u \in Sellers, p \in ProdIds :
          prods[p].seller_id # u =>
             /\ \A price \in Prices, c \in (0 - 1)..(Len(cats) + 1) :
                   update_product(u, p, price, c) =>
                       (resp'.status = 403 /\ prods' = prods)
             /\ delete_product(u, p) =>
                   /\ resp'.status = IF prods[p].is_active THEN 403 ELSE 404
                   /\ prods' = prods]_vars

C4_Witness ==
    /\ resp.op = "delete_product"
    /\ resp.status = 403
    /\ prods[resp.id].is_active

\* the categories under which get_products_by_category(a) lists products:
\* a itself and its active immediate children
Listed(a) ==
    {c \in CatIds : c = a \/ (cats[c].is_active /\ cats[c].parent_id = a)}

\* C6: get_products_by_category(A) succeeds exactly for an active A; every
\* product it returns is in A or in an active immediate child of A (none of
\* a grandchild or of an inactive child), and every active product of A or
\* of an active immediate child of A is returned.
C6_OneLevelOfChildren ==
    resp.op = "get_products_by_category" =>
        /\ resp.status = 200 <=> ActiveCat(resp.id)
        /\ resp.status = 200 =>
              /\ \A p \in resp.body :
                    p \in ProdIds /\ prods[p].category_id \in Listed(resp.id)
              /\ \A p \in ProdIds :
                    (prods[p].is_active
                       /\ prods[p].category_id \in Listed(resp.id))
                    => p \in resp.body

C6_Witness ==
    /\ resp.op = "get_products_by_category"
    /\ resp.status = 200
    /\ \E p \in resp.body : prods[p].category_id # resp.id
    /\ \E q \in ProdIds \ resp.body :
          LET c == prods[q].category_id
          IN  /\ cats[c].parent_id # None
              /\ cats[cats[c].parent_id].parent_id = resp.id

\* C7: no read returns an inactive row: the bodies of the category, product
\* and review queries hold only rows whose is_active is true.
C7_ReadsSkipInactive ==
    /\ resp.op = "get_all_categories" =>
          \A c \in resp.body : cats[c].is_active
    /\ resp.op \in {"get_all_products", "get_product",
                     "get_products_by_category"} =>
          \A p \in resp.body : prods[p].is_active
    /\ resp.op \in {"get_reviews", "get_reviews_by_product"} =>
          \A r \in resp.body : revs[r].is_active

\* C8: with two review requests interleaved step by step, a rating is always
\* 0 or the rounded average of some set of the product's review rows, which
\* need not be the set that is active now: the witness is a state where both
\* requests have completed and a rating differs from the rounded average of
\* the active reviews.
C8_RatingFromSomeReviewSet ==
    \A p \in ProdIds :
        \/ prods[p].rating = 0
        \/ \E S \in SUBSET {r \in RevIds : revs[r].product_id = p} :
              /\ S # {}
              /\ IsRoundedAverage(prods[p].rating, SumGrades(revs, S),
                                  Cardinality(S))

C8_Witness ==
    /\ AllIdle
    /\ resp.status \in {200, 201}
    /\ \E p \in ProdIds : ~RatingMatchesReviews(p)

RatingInRange(p) ==
    ActiveReviewsOf(p) # {} => (100 <= prods[p].rating /\ prods[p].rating <= 500)

\* C9 as claimed: at every commit boundary a product with an active review
\* has a rating from 1.00 to 5.00.
C9_RatingInRange == \A p \in ProdIds : RatingInRange(p)

\* C9 as amended: with review requests run one at a time, whenever no request
\* is between its review commit and its rating commit, a product with an
\* active review has a rating from 1.00 to 5.00.
C9_RatingInRangeAtRest == AllIdle => \A p \in ProdIds : RatingInRange(p)

C9_Witness ==
    /\ AllIdle
    /\ resp.op = "create_review"
    /\ resp.status = 201
    /\ \E p \in ProdIds :
          Cardinality(ActiveReviewsOf(p)) = 2 /\ prods[p].rating = 300

\* the categories met by following parent_id links from c, at most n links
RECURSIVE Ancestors(_, _)
Ancestors(c, n) ==
    IF n = 0 \/ c \notin CatIds \/ cats[c].parent_id = None THEN {}
    ELSE {cats[c].parent_id} \cup Ancestors(cats[c].parent_id, n - 1)

\* C10: the parent_id relation is a forest: no category is among its own
\* ancestors, so following parent_id links always ends at a root.
C10_CategoryForest == \A c \in CatIds : c \notin Ancestors(c, Len(cats))

\* the step answers an error and writes no category, product or review
Rejected ==
    /\ resp'.status \in {400, 404}
    /\ cats' = cats
    /\ prods' = prods
    /\ revs' = revs

\* C11: a request that fails validation answers an error and leaves the
\* store as it was: create_category with a missing or inactive parent,
\* update_category and delete_category on a missing or inactive category,
\* update_category with a missing parent, create_product and update_product
\* with a missing or inactive category, create_review on a missing or
\* inactive product, delete_review on a missing or inactive review.  (Each
\* handler stamps its name and its target id on the response, so a step is
\* tried only against the handler and the target that resp' names.)
C11_FailedValidationWritesNothing ==
    [][/\ resp'.op = "create_category" =>
             \A name \in Names, parent_id \in 1..(Len(cats) + 1) :
                (~ActiveCat(parent_id) /\ create_category(name, parent_id))
                => Rejected
       /\ resp'.op = "update_category" =>
             \A name \in Names, parent_id \in (0 - 1)..(Len(cats) + 1) :
                (/\ ~ActiveCat(resp'.id)
                       \/ (parent_id \notin {None, Unset}
                             /\ parent_id \notin CatIds)
                 /\ update_category(resp'.id, name, parent_id))
                => Rejected
       /\ resp'.op = "delete_category" =>
             ((~ActiveCat(resp'.id) /\ delete_category(resp'.id)) => Rejected)
       /\ resp'.op = "create_product" =>
             \A u \in Sellers, price \in Prices, c \in 1..(Len(cats) + 1) :
                (~ActiveCat(c) /\ create_product(u, price, c)) => Rejected
       /\ (resp'.op = "update_product" /\ resp'.id \in ProdIds) =>
             \A price \in Prices, c \in 1..(Len(cats) + 1) :
                (~ActiveCat(c)
                   /\ update_product(prods[resp'.id].seller_id, resp'.id,
                                     price, c))
                => Rejected
       /\ resp'.op = "create_review" =>
             \A g \in GradeInputs :
                (~ActiveProd(resp'.id) /\ create_review(Buyer, resp'.id, g))
                => Rejected
       /\ resp'.op = "delete_review" =>
             ((~ActiveRev(resp'.id) /\ delete_review(resp'.id)) => Rejected)
      ]_vars

C11_Witness ==
    /\ resp.op = "create_review"
    /\ resp.status = 404
    /\ resp.id \in ProdIds
    /\ ~prods[resp.id].is_active
    /\ \E r \in RevIds : revs[r].product_id = resp.id

\* C12: no step removes a row: the category, product and review ids only
\* grow; delete_category and delete_product change nothing but the target
\* row's is_active, and delete_review nothing but the target review's
\* is_active and the rating of that review's product.
C12_SoftDeleteOnly ==
    [][/\ Len(cats') >= Len(cats)
       /\ Len(prods') >= Len(prods)
       /\ Len(revs') >= Len(revs)
       /\ resp'.op = "delete_category" =>
             /\ prods' = prods /\ revs' = revs
             /\ Len(cats') = Len(cats)
             /\ \A c \in CatIds :
                   \/ cats'[c] = cats[c]
                   \/ /\ c = resp'.id
                      /\ cats'[c] = [cats[c] EXCEPT !.is_active = FALSE]
       /\ resp'.op = "delete_product" =>
             /\ cats' = cats /\ revs' = revs
             /\ Len(prods') = Len(prods)
             /\ \A p \in ProdIds :
                   \/ prods'[p] = prods[p]
                   \/ /\ p = resp'.id
                      /\ prods'[p] = [prods[p] EXCEPT !.is_active = FALSE]
       /\ resp'.op = "delete_review" =>
             /\ cats' = cats
             /\ Len(revs') = Len(revs) /\ Len(prods') = Len(prods)
             /\ \A r \in RevIds :
                   \/ revs'[r] = revs[r]
                   \/ /\ r = resp'.id
                      /\ revs'[r] = [revs[r] EXCEPT !.is_active = FALSE]
             /\ \A p \in ProdIds :
                   \/ prods'[p] = prods[p]
                   \/ /\ resp'.id \in RevIds
                      /\ p = revs[resp'.id].product_id
                      /\ prods'[p] = [prods[p] EXCEPT !.rating = prods'[p].rating]
      ]_vars

C12_Witness ==
    /\ resp.op = "delete_review"
    /\ resp.status = 200
    /\ ~revs[resp.id].is_active
    /\ prods[revs[resp.id].product_id].rating = 0
    /\ \E c \in CatIds : ~cats[c].is_active
    /\ \E p \in ProdIds : ~prods[p].is_active

====
